---- MODULE Spec2Model ----
(***************************************************************************)
(* Lebanese_stats: the spreadsheet importer (import_players.py), the       *)
(* report generator (ai_client.py) and the player search (views.py).       *)
(*                                                                         *)
(* Text is a sequence of one-character strings, so that strip(), lower()   *)
(* and startswith() are computed and not assumed.  A Python value is a     *)
(* record [t, s, n]: t is its kind ("None", "nan" for float('nan'), "inf", *)
(* "ninf", "num", "str"), s its characters (kind "str"), n its magnitude   *)
(* (kind "num") in units of 1/Scale, so 0.61 is 6100 and 61 is 610000.     *)
(***************************************************************************)
EXTENDS Integers, Sequences, FiniteSets, TLC

\* ------------------------------------------------------------------ text

Scale == 100 * 100

UpperCase == <<"A","B","C","D","E","F","G","H","I","J","K","L","M",
               "N","O","P","Q","R","S","T","U","V","W","X","Y","Z">>

LowerCase == <<"a","b","c","d","e","f","g","h","i","j","k","l","m",
               "n","o","p","q","r","s","t","u","v","w","x","y","z">>

Digits == <<"0","1","2","3","4","5","6","7","8","9">>

Letters == {UpperCase[i] : i \in DOMAIN UpperCase} \cup {LowerCase[i] : i \in DOMAIN LowerCase}

Alphabet ==
    Letters \cup {Digits[i] : i \in DOMAIN Digits}
            \cup {" ", "\t", "\n", ".", ",", "-", "+", "%", "#", ":", "_", "/"}

IsLetter(c) == c \in Letters

IsDigit(c) == \E i \in DOMAIN Digits : Digits[i] = c

IsSpace(c) == c \in {" ", "\t", "\n"}

\* the lower-case and the upper-case form of each character
ToLower ==
    [c \in Alphabet |->
        IF \E i \in DOMAIN UpperCase : UpperCase[i] = c
        THEN LowerCase[CHOOSE i \in DOMAIN UpperCase : UpperCase[i] = c] ELSE c]

ToUpper ==
    [c \in Alphabet |->
        IF \E i \in DOMAIN LowerCase : LowerCase[i] = c
        THEN UpperCase[CHOOSE i \in DOMAIN LowerCase : LowerCase[i] = c] ELSE c]

LowerChar(c) == ToLower[c]

UpperChar(c) == ToUpper[c]

DigitVal(c) == (CHOOSE i \in DOMAIN Digits : Digits[i] = c) - 1

\* str.lower()
lower(s) == [i \in 1..Len(s) |-> LowerChar(s[i])]

RECURSIVE lstrip(_)
lstrip(s) == IF s # <<>> /\ IsSpace(Head(s)) THEN lstrip(Tail(s)) ELSE s

RECURSIVE rstrip(_)
rstrip(s) ==
    IF s # <<>> /\ IsSpace(s[Len(s)]) THEN rstrip(SubSeq(s, 1, Len(s) - 1)) ELSE s

\* str.strip()
strip(s) == rstrip(lstrip(s))

\* str.replace(a, b) for one-character a and b
replace(s, a, b) == [i \in 1..Len(s) |-> IF s[i] = a THEN b ELSE s[i]]

\* str.title(): a letter that follows a non-letter is upper-cased, any other
\* letter lower-cased
title(s) ==
    [i \in 1..Len(s) |->
        IF i = 1 \/ ~IsLetter(s[i - 1])
        THEN UpperChar(s[i]) ELSE LowerChar(s[i])]

\* str.startswith(p)
startswith(s, p) == Len(s) >= Len(p) /\ SubSeq(s, 1, Len(p)) = p

\* ---------------------------------------------------------------- values

None == [t |-> "None", s |-> <<>>, n |-> 0]

NaN == [t |-> "nan", s |-> <<>>, n |-> 0]

Inf == [t |-> "inf", s |-> <<>>, n |-> 0]

NegInf == [t |-> "ninf", s |-> <<>>, n |-> 0]

Num(n) == [t |-> "num", s |-> <<>>, n |-> n]

Str(s) == [t |-> "str", s |-> s, n |-> 0]

\* raised inside a try block: the value the except clause sees
Err == [t |-> "err", s |-> <<>>, n |-> 0]

IsFloatNaN(v) == v.t = "nan"

\* Python's < on floats: every comparison with nan is False
FloatLt(a, b) ==
    CASE a.t = "nan" \/ b.t = "nan" -> FALSE
      [] a.t = "ninf" -> b.t # "ninf"
      [] a.t = "inf" -> FALSE
      [] b.t = "inf" -> TRUE
      [] b.t = "ninf" -> FALSE
      [] OTHER -> a.n < b.n

FloatGt(a, b) == FloatLt(b, a)

\* min(a, b) and max(a, b) of Python: the first argument unless the second
\* is strictly smaller (larger)
PyMin(a, b) == IF FloatLt(b, a) THEN b ELSE a

PyMax(a, b) == IF FloatGt(b, a) THEN b ELSE a

\* f / 100.0
Div100(f) == IF f.t = "num" THEN Num(f.n \div 100) ELSE f

RECURSIVE IntOf(_)
IntOf(ds) == IF ds = <<>> THEN 0 ELSE 10 * IntOf(SubSeq(ds, 1, Len(ds) - 1)) + DigitVal(ds[Len(ds)])

\* the fraction digits ds as a count of 1/Scale (digits past the fourth are
\* below the model's resolution)
FracOf(ds) ==
    LET d(i) == IF i <= Len(ds) THEN DigitVal(ds[i]) ELSE 0
    IN  1000 * d(1) + 100 * d(2) + 10 * d(3) + d(4)

AllDigits(ds) == \A i \in DOMAIN ds : IsDigit(ds[i])

\* float(s) for a stripped string: [sign] digits [. digits], [sign] inf,
\* infinity, nan; anything else raises ValueError
ParseFloat(s) ==
    LET neg == s # <<>> /\ s[1] = "-"
        body == IF s # <<>> /\ s[1] \in {"-", "+"} THEN Tail(s) ELSE s
        low == lower(body)
        dots == {i \in DOMAIN body : body[i] = "."}
        ip == IF dots = {} THEN body
              ELSE SubSeq(body, 1, (CHOOSE i \in dots : \A j \in dots : i <= j) - 1)
        fp == IF dots = {} THEN <<>>
              ELSE SubSeq(body, (CHOOSE i \in dots : \A j \in dots : i <= j) + 1, Len(body))
        mag == IntOf(ip) * Scale + FracOf(fp)
    IN  CASE low = <<"n","a","n">> -> NaN
          [] low \in {<<"i","n","f">>, <<"i","n","f","i","n","i","t","y">>} ->
                IF neg THEN NegInf ELSE Inf
          [] AllDigits(ip) /\ AllDigits(fp) /\ Len(ip) + Len(fp) > 0 ->
                Num(IF neg THEN 0 - mag ELSE mag)
          [] OTHER -> Err

RECURSIVE IntDigits(_)
IntDigits(k) ==
    IF k < 10 THEN <<Digits[k + 1]>> ELSE IntDigits(k \div 10) \o <<Digits[(k % 10) + 1]>>

RECURSIVE DropZeros(_)
DropZeros(ds) ==
    IF Len(ds) > 1 /\ ds[Len(ds)] = "0" THEN DropZeros(SubSeq(ds, 1, Len(ds) - 1)) ELSE ds

\* str(v): a whole number prints as an int, any other number with its decimals
PyStr(v) ==
    CASE v.t = "str" -> v.s
      [] v.t = "None" -> <<"N","o","n","e">>
      [] v.t = "nan" -> <<"n","a","n">>
      [] v.t = "inf" -> <<"i","n","f">>
      [] v.t = "ninf" -> <<"-","i","n","f">>
      [] OTHER ->
            LET a == IF v.n < 0 THEN 0 - v.n ELSE v.n
                sign == IF v.n < 0 THEN <<"-">> ELSE <<>>
                f == a % Scale
                fd == <<Digits[(f \div 1000) + 1], Digits[((f \div 100) % 10) + 1],
                        Digits[((f \div 10) % 10) + 1], Digits[(f % 10) + 1]>>
            IN  IF f = 0 THEN sign \o IntDigits(a \div Scale)
                ELSE sign \o IntDigits(a \div Scale) \o <<".">> \o DropZeros(fd)

\* bool(v): None, "", 0 and 0.0 are falsy; nan is truthy
Truthy(v) ==
    CASE v.t = "None" -> FALSE
      [] v.t = "str" -> v.s # <<>>
      [] v.t = "num" -> v.n # 0
      [] OTHER -> TRUE

\* ------------------------------------------------ import_players.py helpers

NAME_KEYS ==
    { <<"p","l","a","y","e","r">>,
      <<"p","l","a","y","e","r","s">>,
      <<"n","a","m","e">>,
      <<"p","l","a","y","e","r"," ","n","a","m","e">>,
      <<"f","u","l","l"," ","n","a","m","e">> }

clean_header(v) == lower(strip(PyStr(v)))

as_float(v, default) ==
    IF v.t = "None" \/ IsFloatNaN(v) THEN default
    ELSE IF v.t = "str"
         THEN LET p == ParseFloat(replace(strip(v.s), ",", "."))
              IN  IF p = Err THEN default ELSE p
         ELSE v

\* the clamp dropped: the value after the division by 100 is stored as it is
pct01_unclamped(v) ==
    LET f == as_float(v, Num(0)) IN IF FloatGt(f, Num(Scale)) THEN Div100(f) ELSE f

pct01(v) ==
    LET f == as_float(v, Num(0))
        g == IF FloatGt(f, Num(Scale)) THEN Div100(f) ELSE f
    IN  PyMax(Num(0), PyMin(Num(Scale), g))

\* re.fullmatch(r"-?\d+(\.\d+)?", s)
IntLike(s) ==
    LET body == IF s # <<>> /\ s[1] = "-" THEN Tail(s) ELSE s
        dots == {i \in DOMAIN body : body[i] = "."}
        d == CHOOSE i \in dots : \A j \in dots : i <= j
    IN  IF dots = {} THEN body # <<>> /\ AllDigits(body)
        ELSE /\ d > 1 /\ d < Len(body)
             /\ AllDigits(SubSeq(body, 1, d - 1))
             /\ AllDigits(SubSeq(body, d + 1, Len(body)))

\* int(f): truncation toward zero; int(inf) and int(nan) raise
IntTrunc(f) ==
    IF f.t # "num" THEN Err
    ELSE Num((IF f.n < 0 THEN 0 - ((0 - f.n) \div Scale) ELSE f.n \div Scale) * Scale)

as_int(v, default) ==
    IF v.t = "None" \/ IsFloatNaN(v) THEN default
    ELSE IF v.t = "str"
         THEN IF ~IntLike(strip(v.s)) THEN default
              ELSE IntTrunc(ParseFloat(strip(v.s)))
         ELSE IF IntTrunc(v) = Err THEN default ELSE IntTrunc(v)

Guard == <<"G","u","a","r","d">>

Forward == <<"F","o","r","w","a","r","d">>

Center == <<"C","e","n","t","e","r">>

norm_pos(v) ==
    IF ~Truthy(v) THEN Guard
    ELSE LET w == title(strip(PyStr(v)))
         IN  IF w \in {Guard, Forward, Center} THEN w ELSE Guard

\* A data frame is [cols, rows]: the column labels and the rows of cells under
\* them.  A row handed to pick is [cols, cells].
RECURSIVE pick_from(_, _)
pick_from(row, cands) ==
    IF cands = <<>> THEN None
    ELSE LET key == lower(strip(Head(cands)))
             hit == {j \in DOMAIN row.cols : clean_header(row.cols[j]) = key}
         IN  IF hit # {}
             THEN row.cells[CHOOSE j \in hit : \A k \in hit : k <= j]
             ELSE pick_from(row, Tail(cands))

pick(row, cands) == pick_from(row, cands)

MaxCheck == 10

RowLooksLikeHeader(r) == \E j \in DOMAIN r : clean_header(r[j]) \in NAME_KEYS

RECURSIVE header_scan(_, _, _)
header_scan(df, i, max_check) ==
    IF i >= max_check THEN 0
    ELSE IF RowLooksLikeHeader(df[i + 1]) THEN i
         ELSE header_scan(df, i + 1, max_check)

\* the scan window dropped: every row of the sheet is scanned
find_header_row_unbounded(df) == header_scan(df, 0, Len(df))

\* df is the raw sheet, a sequence of rows; the result is 0-based
find_header_row(df) == header_scan(df, 0, IF Len(df) < MaxCheck THEN Len(df) ELSE MaxCheck)

\* --------------------------------------------------------- pandas, Django

RECURSIVE KeepIdx(_, _, _)
KeepIdx(seq, keep, j) ==
    IF j > Len(seq) THEN <<>>
    ELSE (IF j \in keep THEN <<seq[j]>> ELSE <<>>) \o KeepIdx(seq, keep, j + 1)

Unnamed == <<"U","n","n","a","m","e","d">>

\* pd.read_excel(..., header=h): row h gives the labels (an empty header cell
\* is labelled "Unnamed: <column>"), the rows below it are the data
read_excel(raw, h) ==
    IF raw = <<>> THEN [cols |-> <<>>, rows |-> <<>>]
    ELSE [cols |-> [j \in DOMAIN raw[h + 1] |->
                      IF IsFloatNaN(raw[h + 1][j])
                      THEN Str(Unnamed \o <<":", " ">> \o IntDigits(j - 1))
                      ELSE raw[h + 1][j]],
          rows |-> SubSeq(raw, h + 2, Len(raw))]

\* df.loc[:, ~df.columns.astype(str).str.startswith("Unnamed")]
drop_unnamed(df) ==
    LET keep == {j \in DOMAIN df.cols : ~startswith(PyStr(df.cols[j]), Unnamed)}
    IN  [cols |-> KeepIdx(df.cols, keep, 1),
         rows |-> [r \in DOMAIN df.rows |-> KeepIdx(df.rows[r], keep, 1)]]

\* any(h in NAME_KEYS for h in headers_norm)
has_name_column(df) == \E j \in DOMAIN df.cols : clean_header(df.cols[j]) \in NAME_KEYS

NAME_CANDS ==
    << <<"P","l","a","y","e","r">>,
       <<"P","l","a","y","e","r","s">>,
       <<"N","a","m","e">>,
       <<"P","l","a","y","e","r"," ","N","a","m","e">>,
       <<"F","u","l","l"," ","N","a","m","e">> >>

NUMBER_CANDS == << <<"N","u","m","b","e","r">>, <<"#">>, <<"N","o">> >>

POSITION_CANDS == << <<"P","o","s","i","t","i","o","n">>, <<"P","o","s">> >>

POINTS_CANDS ==
    << <<"P","o","i","n","t","s"," ","p","e","r"," ","g","a","m","e">>,
       <<"P","T","S">>,
       <<"P","P","G">> >>

TWO_PCT_CANDS ==
    << <<"2"," ","p","o","i","n","t","s"," ","%">>,
       <<"2","P","T","%">>,
       <<"2","P","T"," ","%">>,
       <<"T","w","o"," ","P","o","i","n","t","s"," ","%">> >>

THREE_PCT_CANDS ==
    << <<"3"," ","p","o","i","n","t","s"," ","%">>,
       <<"3","P","T","%">>,
       <<"3","P","T"," ","%">>,
       <<"T","h","r","e","e"," ","P","o","i","n","t","s"," ","%">> >>

\* the first of the five labels that is a column of df, spelled exactly; 0 if
\* none is (name_series stays None)
RECURSIVE name_series_col(_, _)
name_series_col(df, ks) ==
    IF ks = <<>> THEN 0
    ELSE LET hit == {j \in DOMAIN df.cols : df.cols[j] = Str(Head(ks))}
         IN  IF hit # {} THEN CHOOSE j \in hit : TRUE ELSE name_series_col(df, Tail(ks))

\* df[name_series.notna()]
drop_empty_names(df) ==
    LET c == name_series_col(df, NAME_CANDS)
        keep == {r \in DOMAIN df.rows : ~(df.rows[r][c].t \in {"nan", "None"})}
    IN  IF c = 0 THEN df ELSE [cols |-> df.cols, rows |-> KeepIdx(df.rows, keep, 1)]

\* the test of line 137 negated: the row goes on to Player.objects.create
name_accepted(name) == Truthy(name) /\ ~IsFloatNaN(name)

\* the Player that lines 139-178 build from a row [cols, cells] for team id tm
player_of_row(row, tm) ==
    [team |-> tm,
     name |-> strip(PyStr(pick(row, NAME_CANDS))),
     number |-> as_int(pick(row, NUMBER_CANDS), Num(0)),
     position |-> norm_pos(pick(row, POSITION_CANDS)),
     points_per_game |-> as_float(pick(row, POINTS_CANDS), Num(0)),
     two_points_pct |-> pct01(pick(row, TWO_PCT_CANDS)),
     three_points_pct |-> pct01(pick(row, THREE_PCT_CANDS))]

\* Team.objects.get_or_create(name=nm) on the Team table ts (a sequence of
\* names; a team's id is its place): [ok, id, teams]
get_or_create(ts, nm) ==
    LET hit == {i \in DOMAIN ts : ts[i] = nm}
    IN  IF hit = {} THEN [ok |-> TRUE, id |-> Len(ts) + 1, teams |-> Append(ts, nm)]
        ELSE IF Cardinality(hit) = 1
             THEN [ok |-> TRUE, id |-> CHOOSE i \in hit : TRUE, teams |-> ts]
             ELSE [ok |-> FALSE, id |-> 0, teams |-> ts]

\* the flag ignored: no Player is deleted
reset_players_never(players, flag) == players

\* if opts["reset"]: Player.objects.all().delete()
reset_players(players, flag) == IF flag THEN <<>> ELSE players

\* what leaving the transaction.atomic block by an exception does with the
\* state saved on entry (saved) and the state written since (current)
rollback_none(saved, current) == current

rollback(saved, current) == saved

\* ------------------------------------------------------------------ state

\* import_players: the workbook, the database, and where Command.handle stands
VARIABLES book, db, snap, pc, reset, si, ri, df, hdr_idx, team, created_here,
          total_players, stdout, hist

\* generate_team_report: its arguments, the settings, the service, its result
VARIABLES team_name, roster, credential, service, rpc, calls, result

\* player_search: the Player table, the query string, the rendered players
VARIABLES table, GET, spc, found

\* find_header_row: the raw sheet and the returned index
VARIABLES sheet, hpc, hdr

impVars == <<book, db, snap, pc, reset, si, ri, df, hdr_idx, team, created_here,
             total_players, stdout, hist>>

repVars == <<team_name, roster, credential, service, rpc, calls, result>>

srchVars == <<table, GET, spc, found>>

hdrVars == <<sheet, hpc, hdr>>

vars == <<impVars, repVars, srchVars, hdrVars>>

\* the parts of the state a specification does not use
ImportUnused ==
    /\ book = <<>> /\ db = [teams |-> <<>>, players |-> <<>>]
    /\ snap = [teams |-> <<>>, players |-> <<>>]
    /\ pc = "off" /\ reset = FALSE /\ si = 0 /\ ri = 0
    /\ df = [cols |-> <<>>, rows |-> <<>>] /\ hdr_idx = 0 /\ team = 0
    /\ created_here = 0 /\ total_players = 0 /\ stdout = <<>> /\ hist = <<>>

ReportUnused ==
    /\ team_name = <<>> /\ roster = <<>> /\ credential = FALSE /\ service = "off"
    /\ rpc = "off" /\ calls = 0 /\ result = None

SearchUnused == table = <<>> /\ GET = <<>> /\ spc = "off" /\ found = <<>>

HeaderUnused == sheet = <<>> /\ hpc = "off" /\ hdr = 0

\* ------------------------------------------------------------ the workbook

\* the most data rows a modelled workbook holds, over all its sheets
MaxBookRows == 2

\* the most import runs in a behaviour
MaxRuns == 2

SheetNames == << <<" ","R","i","y","a","d","i">>, <<"S","a","g","e","s","s","e">> >>

SheetKinds == {"plain", "noisy", "noname"}

\* the rows of a sheet down to its header row
TopRows(kind) ==
    CASE kind = "plain" ->
            << <<Str(<<"P","l","a","y","e","r">>), Str(<<"P","o","s">>),
                 Str(<<"P","T","S">>), Str(<<"2","P","T","%">>),
                 Str(<<"3","P","T","%">>)>> >>
      [] kind = "noisy" ->
            << <<Str(<<"R","o","s","t","e","r">>), NaN, NaN, NaN, NaN>>,
               <<NaN, NaN, NaN, NaN, NaN>>,
               <<Str(<<"S","e","a","s","o","n">>), Num(2024 * Scale), NaN, NaN, NaN>>,
               <<Str(<<" ","N","A","M","E"," ">>), NaN, Str(<<"p","p","g">>),
                 Str(<<"2"," ","p","o","i","n","t","s"," ","%">>),
                 Str(<<"T","h","r","e","e"," ","P","o","i","n","t","s"," ","%">>)>> >>
      [] OTHER ->
            << <<Str(<<"S","q","u","a","d">>), Str(<<"P","o","s">>),
                 Str(<<"P","T","S">>), Str(<<"2","P","T","%">>),
                 Str(<<"3","P","T","%">>)>> >>

\* data rows: name, position, points, two-point %, three-point %
DataRows ==
    << <<Str(<<" ","B","o","b"," ">>), Str(<<"f","o","r","w","a","r","d">>),
         Num(205 * (Scale \div 10)), Num(61 * Scale), Str(<<"0",",","3","5">>)>>,
       <<NaN, NaN, NaN, Num(Scale \div 2), Num(Scale \div 2)>>,
       <<Str(<<" ", " ">>), Str(<<"c","e","n","t","e","r">>), Str(<<"a","b","c">>),
         Num(61 * (Scale \div 100)), Num(Scale)>>,
       <<Str(<<>>), Str(<<"G","u","a","r","d">>), Num(10 * Scale),
         Str(<<"a","b","c">>), NaN>>,
       <<Str(<<"C","y">>), Str(<<"P","F">>), Num(0), Num(250 * Scale),
         Num(0 - 5 * Scale)>> >>

\* the data of a sheet: at most n of the rows above, in that order
RowLists(n) ==
    {KeepIdx(DataRows, S, 1) : S \in {T \in SUBSET DOMAIN DataRows : Cardinality(T) <= n}}

Books ==
    LET n == Len(SheetNames)
        picks == [1..n -> SheetKinds \X RowLists(MaxBookRows)]
        RECURSIVE total(_, _)
        total(b, i) == IF i > n THEN 0 ELSE Len(b[i][2]) + total(b, i + 1)
    IN  { [i \in 1..n |-> [name |-> SheetNames[i], kind |-> b[i][1], data |-> b[i][2]]] :
            b \in {c \in picks : total(c, 1) <= MaxBookRows} }

\* the cells of a sheet of the workbook, as pandas reads them with header=None
RawRows(sh) == TopRows(sh.kind) \o sh.data

Riyadi == <<"R","i","y","a","d","i">>

\* a Player entered through the admin: its optional statistics are NULL
AdminPlayer ==
    [team |-> 1, name |-> <<"O","l","d">>, number |-> Num(4 * Scale), position |-> Guard,
     points_per_game |-> None, two_points_pct |-> None, three_points_pct |-> None]

\* the database before the first run: empty; a team of the first sheet's name
\* with a player; two teams of that name (Team.name is not unique)
InitialDBs ==
    { [teams |-> <<>>, players |-> <<>>],
      [teams |-> <<Riyadi>>, players |-> <<AdminPlayer>>],
      [teams |-> <<Riyadi, Riyadi>>, players |-> <<>>] }

InitImport ==
    /\ book \in Books
    /\ db \in InitialDBs
    /\ snap = db
    /\ pc = "idle" /\ reset = FALSE /\ si = 0 /\ ri = 0
    /\ df = [cols |-> <<>>, rows |-> <<>>] /\ hdr_idx = 0 /\ team = 0
    /\ created_here = 0 /\ total_players = 0 /\ stdout = <<>> /\ hist = <<>>

Init == InitImport /\ ReportUnused /\ SearchUnused /\ HeaderUnused

\* ----------------------------------------------------- Command.handle

OtherThanImport == UNCHANGED <<repVars, srchVars, hdrVars>>

\* the record of a finished run: its flag, whether handle returned, and the
\* number of Player rows before it and after it
Run(ok, after) ==
    [reset |-> reset, ok |-> ok, before |-> Len(snap.players),
     after |-> Len(after.players)]

\* handle's locals, which do not outlive the call
NoLocals ==
    /\ si' = 0 /\ ri' = 0 /\ hdr_idx' = 0 /\ team' = 0
    /\ df' = [cols |-> <<>>, rows |-> <<>>]
    /\ created_here' = 0 /\ total_players' = 0

\* the command is invoked: transaction.atomic saves the state on entry.  A run
\* that aborted left the database as it found it, and the runs from there are
\* the runs from the state before it.
Start ==
    /\ pc \in {"idle", "done"}
    /\ Len(hist) < MaxRuns
    /\ \E r \in BOOLEAN : reset' = r
    /\ snap' = db
    /\ pc' = "read"
    /\ NoLocals
    /\ stdout' = <<>>
    /\ UNCHANGED <<book, db, hist>>
    /\ OtherThanImport

\* pd.read_excel(path, sheet_name=None, header=None) returns the raw book
ReadBook ==
    /\ pc = "read"
    /\ pc' = "reset"
    /\ UNCHANGED <<book, db, snap, reset, si, ri, df, hdr_idx, team, created_here,
                   total_players, stdout, hist>>
    /\ OtherThanImport

\* if opts["reset"]: Player.objects.all().delete(); total_players = 0
ResetPlayers ==
    /\ pc = "reset"
    /\ db' = [db EXCEPT !.players = reset_players(@, reset)]
    /\ total_players' = 0
    /\ si' = 1
    /\ pc' = "header"
    /\ UNCHANGED <<book, snap, reset, ri, df, hdr_idx, team, created_here, stdout, hist>>
    /\ OtherThanImport

\* find_header_row, the re-read with that header, the Unnamed columns dropped
SheetHeader ==
    /\ pc = "header" /\ si <= Len(book)
    /\ hdr_idx' = find_header_row(RawRows(book[si]))
    /\ df' = drop_unnamed(read_excel(RawRows(book[si]), hdr_idx'))
    /\ pc' = "team"
    /\ UNCHANGED <<book, db, snap, reset, si, ri, team, created_here, total_players,
                   stdout, hist>>
    /\ OtherThanImport

\* Team.objects.get_or_create(name=str(sheet_name).strip()); with several
\* teams of that name it raises MultipleObjectsReturned, which leaves handle
SheetTeam ==
    /\ pc = "team"
    /\ LET got == get_or_create(db.teams, strip(book[si].name))
       IN  \/ /\ got.ok
              /\ team' = got.id
              /\ db' = [db EXCEPT !.teams = got.teams]
              /\ pc' = "gate"
              /\ UNCHANGED hist
              /\ UNCHANGED <<si, ri, df, hdr_idx, created_here, total_players>>
           \/ /\ ~got.ok
              /\ db' = rollback(snap, db)
              /\ pc' = "aborted"
              /\ hist' = Append(hist, Run(FALSE, db'))
              /\ NoLocals
    /\ UNCHANGED <<book, snap, reset, stdout>>
    /\ OtherThanImport

\* break in the place of continue: the loop over the sheets ends
after_skip_break(i, n) == n + 1

\* the sheet the loop turns to after the continue of line 122, for sheet i of n
after_skip(i, n) == i + 1

\* the test of line 118: a sheet without a name column is skipped with a
\* warning; otherwise its rows with a null name are dropped and the loop over
\* the rows begins
SheetGate ==
    /\ pc = "gate"
    /\ IF has_name_column(df)
       THEN /\ df' = drop_empty_names(df)
            /\ created_here' = 0
            /\ ri' = 1
            /\ si' = si
            /\ pc' = "rows"
       ELSE /\ si' = after_skip(si, Len(book))
            /\ pc' = "header"
            /\ UNCHANGED <<df, created_here, ri>>
    /\ UNCHANGED <<book, db, snap, reset, hdr_idx, team, total_players, stdout, hist>>
    /\ OtherThanImport

\* one turn of the loop over df.iterrows()
SheetRow ==
    /\ pc = "rows" /\ ri <= Len(df.rows)
    /\ LET row == [cols |-> df.cols, cells |-> df.rows[ri]]
       IN  IF name_accepted(pick(row, NAME_CANDS))
           THEN /\ db' = [db EXCEPT !.players = Append(@, player_of_row(row, team))]
                /\ created_here' = created_here + 1
                /\ total_players' = total_players + 1
           ELSE UNCHANGED <<db, created_here, total_players>>
    /\ ri' = ri + 1
    /\ UNCHANGED <<book, snap, reset, si, df, hdr_idx, team, pc, stdout, hist>>
    /\ OtherThanImport

\* the rows are exhausted: "[team] imported n players."
SheetDone ==
    /\ pc = "rows" /\ ri > Len(df.rows)
    /\ stdout' = Append(stdout, [team |-> team, n |-> created_here])
    /\ si' = si + 1
    /\ pc' = "header"
    /\ UNCHANGED <<book, db, snap, reset, ri, df, hdr_idx, team, created_here,
                   total_players, hist>>
    /\ OtherThanImport

\* the sheets are exhausted: "Done. Total players imported: n"; handle returns
\* and the transaction commits
Finish ==
    /\ pc = "header" /\ si > Len(book)
    /\ stdout' = Append(stdout, [team |-> 0, n |-> total_players])
    /\ pc' = "done"
    /\ hist' = Append(hist, Run(TRUE, db))
    /\ NoLocals
    /\ UNCHANGED <<book, db, snap, reset>>
    /\ OtherThanImport

\* an exception leaves handle: the workbook cannot be read (CommandError), the
\* re-read of a sheet fails, or the database refuses a get_or_create or a create
Fail ==
    /\ \/ pc \in {"read", "header", "team"} /\ (pc = "header" => si <= Len(book))
       \/ /\ pc = "rows" /\ ri <= Len(df.rows)
          /\ name_accepted(pick([cols |-> df.cols, cells |-> df.rows[ri]], NAME_CANDS))
    /\ db' = rollback(snap, db)
    /\ pc' = "aborted"
    /\ hist' = Append(hist, Run(FALSE, db'))
    /\ NoLocals
    /\ UNCHANGED <<book, snap, reset, stdout>>
    /\ OtherThanImport

Next ==
    \/ Start
    \/ ReadBook
    \/ ResetPlayers
    \/ SheetHeader
    \/ SheetTeam
    \/ SheetGate
    \/ SheetRow
    \/ SheetDone
    \/ Finish
    \/ Fail

Spec == Init /\ [][Next]_vars

\* ------------------------------------------------- properties of the import

\* the frame the loop body sees for a sheet before the validity gate
FrameOf(sh) == drop_unnamed(read_excel(RawRows(sh), find_header_row(RawRows(sh))))

\* the rows of a frame as pick sees them
FrameRows(f) == [r \in DOMAIN f.rows |-> [cols |-> f.cols, cells |-> f.rows[r]]]

RECURSIVE SumOver(_, _)
SumOver(f, S) ==
    IF S = {} THEN 0 ELSE LET x == CHOOSE y \in S : TRUE IN f[x] + SumOver(f, S \ {x})

\* the rows of the workbook that yield a Player: those of the sheets with a
\* name column whose name passes the test of line 137
ValidRows(b) ==
    SumOver([i \in DOMAIN b |->
                LET f == FrameOf(b[i])
                    rows == FrameRows(f)
                IN  IF has_name_column(f)
                    THEN Cardinality({r \in DOMAIN rows :
                                        name_accepted(pick(rows[r], NAME_CANDS))})
                    ELSE 0],
            DOMAIN b)

\* the Player rows the current run has added
RunBase == IF reset THEN 0 ELSE Len(snap.players)

RunCreated == SubSeq(db.players, RunBase + 1, Len(db.players))

\* C1: a run that an exception ended (the workbook read, a re-read, a
\* get_or_create or a create failed) leaves the Team and Player tables exactly
\* as they were when it began, also when it had deleted players by reset
\* and created teams and players before failing.
C1_AbortRestoresDatabase == pc = "aborted" => db = snap

C1_Witness ==
    /\ pc = "aborted" /\ reset /\ snap.players # <<>>
    /\ \E i \in DOMAIN stdout : stdout[i].n > 0
    /\ db.players = snap.players

\* C2: every run that returns with reset leaves as many Player rows as the
\* workbook has valid rows, whatever was there before, so a second such run
\* leaves the count of the first; a run without reset adds that many, so two of
\* them leave the first count before plus twice that many.
C2_ResetIdempotent ==
    pc = "done" =>
       LET v == ValidRows(book)
       IN  /\ \A i \in DOMAIN hist :
                 hist[i].ok =>
                    hist[i].after = (IF hist[i].reset THEN 0 ELSE hist[i].before) + v
           /\ \A i \in DOMAIN hist :
                 (i > 1 /\ hist[i].ok /\ hist[i - 1].ok) =>
                    /\ (hist[i].reset /\ hist[i - 1].reset) =>
                          hist[i].after = hist[i - 1].after
                    /\ (~hist[i].reset /\ ~hist[i - 1].reset) =>
                          hist[i].after = hist[i - 1].before + 2 * v

C2_Witness ==
    /\ pc = "done" /\ Len(hist) = 2 /\ hist[1].ok /\ hist[2].ok
    /\ hist[1].reset /\ hist[2].reset
    /\ hist[1].before > 0 /\ ValidRows(book) > 0
    /\ hist[2].after = hist[1].after

\* the values pct01 is asked about: numbers, numeric text, text that is no
\* number, negative and large values, infinities, missing cells
PctInputs ==
    { None, NaN, Inf, NegInf,
      Num(0), Num(61 * Scale), Num(61 * (Scale \div 100)), Num(Scale), Num(Scale + 1),
      Num(100 * Scale), Num(101 * Scale), Num(250 * Scale), Num(12345 * Scale),
      Num(0 - 5 * Scale), Num(0 - 1),
      Str(<<"6","1">>), Str(<<" ","6","1"," ">>), Str(<<"0",",","6","1">>),
      Str(<<"0",".","6","1">>), Str(<<"-","3">>), Str(<<"6","1","%">>),
      Str(<<"a","b","c">>), Str(<<>>), Str(<<"n","a","n">>), Str(<<"i","n","f">>),
      Str(<<"-","I","n","f">>), Str(<<"1",",","2","3","4",".","5">>) }

InUnit(f) == f.t = "num" /\ 0 <= f.n /\ f.n <= Scale

\* pct01 on the values above: the range, the two spellings of 61 %, the
\* division by 100 before the clamp, the default of 0
Pct01Cases ==
    /\ \A v \in PctInputs : InUnit(pct01(v))
    /\ pct01(Num(61 * Scale)) = Num(61 * (Scale \div 100))
    /\ pct01(Num(61 * (Scale \div 100))) = Num(61 * (Scale \div 100))
    /\ pct01(Str(<<"6","1">>)) = pct01(Str(<<"0",",","6","1">>))
    /\ pct01(Num(250 * Scale)) = Num(Scale)
    /\ \A v \in {None, NaN, Str(<<"a","b","c">>), Str(<<>>), Str(<<"6","1","%">>)} :
          pct01(v) = Num(0)

\* C5: pct01 of any value lies in [0,1]; 61 and 0.61 both give 0.61; a value
\* above 1.0 is divided by 100 and then clamped; a missing or unparseable one
\* gives 0; and every Player row an import created has both percentages in
\* [0,1].
C5_PctInUnit ==
    /\ Pct01Cases
    /\ \A i \in DOMAIN db.players :
          db.players[i] # AdminPlayer =>
             InUnit(db.players[i].two_points_pct) /\ InUnit(db.players[i].three_points_pct)

C5_Witness ==
    /\ pc = "done"
    /\ \E i \in DOMAIN db.players :
          /\ db.players[i].name = <<"C","y">>
          /\ db.players[i].two_points_pct = Num(Scale)
          /\ db.players[i].three_points_pct = Num(0)
    /\ \E i \in DOMAIN db.players :
          /\ db.players[i].name = <<"B","o","b">>
          /\ db.players[i].two_points_pct = Num(61 * (Scale \div 100))
          /\ db.players[i].three_points_pct = Num(35 * (Scale \div 100))

\* a name cell that is empty or unparseable: null/NaN, the empty string, or
\* blank after trimming
EmptyName(c) == c.t \in {"None", "nan"} \/ (c.t = "str" /\ strip(c.s) = <<>>)

\* the rows of the sheets with a name column whose name cell is not empty
NamedRows(b) ==
    SumOver([i \in DOMAIN b |->
                LET f == FrameOf(b[i])
                    rows == FrameRows(f)
                IN  IF has_name_column(f)
                    THEN Cardinality({r \in DOMAIN rows :
                                        ~EmptyName(pick(rows[r], NAME_CANDS))})
                    ELSE 0],
            DOMAIN b)

\* C6: a run creates no Player and counts nothing for a row whose name cell is
\* null/NaN, empty or blank after trimming, and one Player for every other row
\* of a valid sheet; the per-sheet counts and the total it reports are the
\* numbers of Player rows it created.
C6_RowSkipRule ==
    pc = "done" =>
       /\ Len(RunCreated) = NamedRows(book)
       /\ stdout[Len(stdout)].n = Len(RunCreated)
       /\ SumOver([i \in DOMAIN stdout |-> IF stdout[i].team = 0 THEN 0 ELSE stdout[i].n],
                  DOMAIN stdout) = Len(RunCreated)
       /\ \A i \in DOMAIN RunCreated : RunCreated[i].name # <<>>

\* the part of C6 the code keeps: the counts it reports are the rows it created
C6_CountsMatchCreated ==
    pc = "done" =>
       /\ stdout[Len(stdout)].n = Len(RunCreated)
       /\ SumOver([i \in DOMAIN stdout |-> IF stdout[i].team = 0 THEN 0 ELSE stdout[i].n],
                  DOMAIN stdout) = Len(RunCreated)
       /\ Len(RunCreated) = ValidRows(book)

\* what a run over the sheets shs creates, in order, with each Player's team
\* given by name
RECURSIVE ImportOf(_)
ImportOf(shs) ==
    IF shs = <<>> THEN <<>>
    ELSE LET rows == FrameRows(drop_empty_names(FrameOf(Head(shs))))
             keep == {r \in DOMAIN rows : name_accepted(pick(rows[r], NAME_CANDS))}
         IN  [r \in 1..Len(KeepIdx(rows, keep, 1)) |->
                 player_of_row(KeepIdx(rows, keep, 1)[r], strip(Head(shs).name))]
             \o ImportOf(Tail(shs))

HasNameColumn(sh) == has_name_column(FrameOf(sh))

ByTeamName(ps) == [i \in DOMAIN ps |-> [ps[i] EXCEPT !.team = db.teams[ps[i].team]]]

\* C7: at a sheet without a name column the run goes on to the next sheet
\* with no Player created and nothing else changed, and a run that returns has
\* created exactly the players of the workbook with those sheets left out.
C7_SheetSkipped ==
    /\ [][(pc = "gate" /\ ~has_name_column(df)) =>
             (pc' = "header" /\ si' = si + 1 /\ db' = db /\ total_players' = total_players)]_vars
    /\ [](pc = "done" => ByTeamName(RunCreated) = ImportOf(SelectSeq(book, HasNameColumn)))

C7_Witness ==
    /\ pc = "done"
    /\ ~HasNameColumn(book[1]) /\ HasNameColumn(book[2])
    /\ Len(RunCreated) > 0
    /\ \A i \in DOMAIN RunCreated : db.teams[RunCreated[i].team] = strip(book[2].name)
    /\ \E i \in DOMAIN db.teams : db.teams[i] = strip(book[1].name)

\* ------------------------------------------------------ find_header_row

\* the most rows of a raw sheet handed to find_header_row
MaxSheetRows == 12

\* header cells that name a name column, in several spellings
HeaderCells ==
    { Str(<<"P","l","a","y","e","r">>), Str(<<" ","N","A","M","E"," ">>),
      Str(<<"P","L","A","Y","E","R","S">>), Str(<<"F","u","l","l"," ","N","a","m","e">>),
      Str(<<"\t","p","l","a","y","e","r"," ","n","a","m","e">>) }

\* rows that name no name column: titles, blanks, numbers, near misses
NoiseRow(i) ==
    CASE i % 4 = 0 -> <<Str(<<"R","o","s","t","e","r">>), NaN>>
      [] i % 4 = 1 -> <<NaN, NaN>>
      [] i % 4 = 2 -> <<Str(<<"P","l","a","y","e","r","z">>), Num(7 * Scale)>>
      [] OTHER -> <<Str(<<"N","a","m","e","s">>), Str(<<"n","a","m"," ","e">>)>>

\* raw sheets of up to MaxSheetRows rows with at most two header-like rows
HeaderSheets ==
    { [i \in 1..n |-> IF (i - 1) \in H THEN <<Num(i * Scale), c>> ELSE NoiseRow(i - 1)] :
        n \in 0..MaxSheetRows,
        H \in {G \in SUBSET (0..(MaxSheetRows - 1)) : Cardinality(G) <= 2},
        c \in HeaderCells }

InitHeader ==
    /\ sheet \in HeaderSheets /\ hpc = "call" /\ hdr = 0
    /\ ImportUnused /\ ReportUnused /\ SearchUnused

\* hdr_idx = find_header_row(raw_df)
DetectHeader ==
    /\ hpc = "call"
    /\ hdr' = find_header_row(sheet)
    /\ hpc' = "returned"
    /\ UNCHANGED <<sheet, impVars, repVars, srchVars>>

NextHeader == DetectHeader

SpecHeader == InitHeader /\ [][NextHeader]_vars

\* row i (0-based) of the sheet holds a cell that, lowercased and trimmed, is
\* one of player / players / name / player name / full name
NamesAColumn(i) ==
    \E j \in DOMAIN sheet[i + 1] : lower(strip(PyStr(sheet[i + 1][j]))) \in NAME_KEYS

\* the 0-based rows that the scan may return
ScanHits == {i \in 0..(Len(sheet) - 1) : i < 10 /\ NamesAColumn(i)}

ThreeNoiseRowsThenPlayer ==
    << <<Str(<<"R","o","s","t","e","r">>), NaN>>,
       <<NaN, NaN>>,
       <<Str(<<"S","e","a","s","o","n">>), Num(2024 * Scale)>>,
       <<Num(1 * Scale), Str(<<"P","l","a","y","e","r">>)>>,
       <<Num(4 * Scale), Str(<<"B","o","b">>)>> >>

HeaderExample == find_header_row(ThreeNoiseRowsThenPlayer) = 3

\* C10: find_header_row returns the smallest index below 10 and below the
\* number of rows whose row names a name column, and 0 when there is none
\* (an empty sheet, or a header row only at index 10 or later); three noise
\* rows followed by a row with the cell "Player" give 3.
C10_HeaderRow ==
    /\ HeaderExample
    /\ hpc = "returned" =>
          IF ScanHits = {} THEN hdr = 0
          ELSE hdr \in ScanHits /\ \A j \in ScanHits : hdr <= j

C10_Witness ==
    /\ hpc = "returned" /\ hdr = 0
    /\ ScanHits = {}
    /\ \E i \in 10..(Len(sheet) - 1) : NamesAColumn(i)

\* ------------------------------------------------------------ ai_client.py

\* What generate_team_report hands back.  A report is kept as the values its
\* f-string template interpolates, each number as the tenths that ":.1f"
\* prints; kind is "empty" (the no-statistics sentence), "report" (the
\* template), "text" (the service's text) or "raise" (an exception reaches the
\* caller).
Outcome(kind, tm, names, shown, text) ==
    [kind |-> kind, team |-> tm, names |-> names, shown |-> shown, text |-> text]

Raised == Outcome("raise", <<>>, <<>>, <<>>, <<>>)

IsNone(v) == v.t = "None"

\* format(x, ".1f") of a non-negative number: tenths, rounded half to even;
\* the statistics of the model are multiples of 0.5, whose sums and means over
\* up to five players are ties only where the double is exact
OneDecimal(v) ==
    LET q == (10 * v.n) \div Scale
        r == (10 * v.n) % Scale
    IN  IF 2 * r < Scale THEN q
        ELSE IF 2 * r > Scale THEN q + 1
        ELSE IF q % 2 = 0 THEN q ELSE q + 1

\* sum(seq) / len(seq) after the None values are dropped; 0.0 for none left.
\* The quotient is kept as the pair it is rounded from.
avg(seq) ==
    LET idx == {i \in DOMAIN seq : ~IsNone(seq[i])}
        RECURSIVE sum(_)
        sum(S) == IF S = {} THEN 0
                  ELSE LET x == CHOOSE y \in S : TRUE IN seq[x].n + sum(S \ {x})
    IN  IF idx = {} THEN [num |-> 0, den |-> 1] ELSE [num |-> sum(idx), den |-> Cardinality(idx)]

\* format(num / den, ".1f")
OneDecimalOf(a) ==
    LET q == (10 * a.num) \div (Scale * a.den)
        r == (10 * a.num) % (Scale * a.den)
    IN  IF 2 * r < Scale * a.den THEN q
        ELSE IF 2 * r > Scale * a.den THEN q + 1
        ELSE IF q % 2 = 0 THEN q ELSE q + 1

\* the test of line 41 for one player: "raise", TRUE or FALSE; the or is
\* short-circuit, so points are looked at only when minutes are not above 0
ActiveTest(p) ==
    IF IsNone(p.minutes_per_game) THEN "raise"
    ELSE IF p.minutes_per_game.n > 0 THEN "yes"
    ELSE IF IsNone(p.points_per_game) THEN "raise"
    ELSE IF p.points_per_game.n > 0 THEN "yes" ELSE "no"

\* max(active, key=lambda p: p[fld]): the first player with the largest key;
\* with two players or more a None key meets a comparison, which raises
RECURSIVE max_from(_, _, _, _)
max_from(ps, fld, i, best) ==
    IF i > Len(ps) THEN best
    ELSE max_from(ps, fld, i + 1, IF ps[i][fld].n > ps[best][fld].n THEN i ELSE best)

\* 0 when the comparison raises, else the place of the maximum
max_by(ps, fld) ==
    IF Len(ps) > 1 /\ \E i \in DOMAIN ps : IsNone(ps[i][fld]) THEN 0
    ELSE max_from(ps, fld, 2, 1)

fallback_report(tm, players) ==
    IF players = <<>> THEN Outcome("empty", tm, <<>>, <<>>, <<>>)
    ELSE IF \E i \in DOMAIN players : ActiveTest(players[i]) = "raise" THEN Raised
    ELSE LET sel == KeepIdx(players, {i \in DOMAIN players : ActiveTest(players[i]) = "yes"}, 1)
             active == IF sel = <<>> THEN players ELSE sel
             top_pts == max_by(active, "points_per_game")
             top_reb == max_by(active, "rebounds_per_game")
             top_ast == max_by(active, "assists_per_game")
             avg_pts == avg([i \in DOMAIN active |-> active[i].points_per_game])
             avg_reb == avg([i \in DOMAIN active |-> active[i].rebounds_per_game])
             avg_ast == avg([i \in DOMAIN active |-> active[i].assists_per_game])
         IN  IF top_pts = 0 \/ top_reb = 0 \/ top_ast = 0 THEN Raised
             ELSE IF \/ IsNone(active[top_pts].points_per_game)
                     \/ IsNone(active[top_reb].rebounds_per_game)
                     \/ IsNone(active[top_ast].assists_per_game)
                  THEN Raised
                  ELSE Outcome("report", tm,
                          <<active[top_pts].name, active[top_reb].name, active[top_ast].name>>,
                          <<OneDecimal(active[top_pts].points_per_game),
                            OneDecimal(active[top_reb].rebounds_per_game),
                            OneDecimal(active[top_ast].assists_per_game),
                            OneDecimalOf(avg_pts), OneDecimalOf(avg_reb), OneDecimalOf(avg_ast)>>,
                          <<>>)

\* the roster lines of the prompt format four statistics with ":.1f", which
\* raises TypeError for None
prompt_formats(players) ==
    \A i \in DOMAIN players :
        /\ ~IsNone(players[i].points_per_game) /\ ~IsNone(players[i].rebounds_per_game)
        /\ ~IsNone(players[i].assists_per_game) /\ ~IsNone(players[i].rating)

\* the service's text returned as it is, blank or not
text_or_fallback_never(txt, tm, players) == Outcome("text", tm, <<>>, <<>>, strip(txt))

\* resp.output[0].content[0].text.strip() or _fallback_report(team, players)
text_or_fallback(txt, tm, players) ==
    IF strip(txt) # <<>> THEN Outcome("text", tm, <<>>, <<>>, strip(txt))
    ELSE fallback_report(tm, players)

\* ---- generate_team_report as a state machine

MaxRoster == 3

Lakers == <<"L","a","k","e","r","s">>

Stat(x2) == IF x2 = -1 THEN None ELSE Num((x2 * Scale) \div 2)

\* a Player row as the report reads it; the statistics are given in halves,
\* -1 for a NULL column
PlayerRow(nm, mins, pts, reb, ast, rat) ==
    [name |-> nm, minutes_per_game |-> Stat(mins), points_per_game |-> Stat(pts),
     rebounds_per_game |-> Stat(reb), assists_per_game |-> Stat(ast), rating |-> Stat(rat)]

PlayerA == PlayerRow(<<"A">>, 60, 40, 10, 6, 30)
PlayerB == PlayerRow(<<"B">>, 50, 20, 24, 4, 24)
PlayerC == PlayerRow(<<"C">>, 40, 16, 8, 18, 20)

RosterCatalogue ==
    { PlayerA, PlayerB, PlayerC,
      PlayerRow(<<"D">>, 0, 0, 30, 20, 0),        \* did not play: outside the active subset
      PlayerRow(<<"E">>, 20, 40, 11, 6, 18),      \* ties A on points and assists
      PlayerRow(<<"F">>, -1, -1, -1, -1, -1),     \* created in the admin, no statistics
      PlayerRow(<<"G">>, 24, 13, -1, 2, -1),      \* some statistics missing
      PlayerRow(<<"H">>, 0, 0, 4, 1, 0) }         \* did not play either

Rosters ==
    {r \in UNION {[1..n -> RosterCatalogue] : n \in 0..MaxRoster} :
        \A i, j \in DOMAIN r : i # j => r[i] # r[j]}

\* what the external service does with the one request it may get
Services ==
    { [kind |-> "text", text |-> <<" ","S","o","l","i","d"," ","t","e","a","m",".","\n">>],
      [kind |-> "text", text |-> <<" ","\n">>],
      [kind |-> "text", text |-> <<>>],
      [kind |-> "raise", text |-> <<>>] }

Pending == Outcome("pending", <<>>, <<>>, <<>>, <<>>)

InitReport ==
    /\ team_name = Lakers
    /\ roster \in Rosters
    /\ credential \in BOOLEAN
    /\ service \in Services
    /\ rpc = "call"
    /\ calls = 0
    /\ result = Pending
    /\ ImportUnused /\ SearchUnused /\ HeaderUnused

OtherThanReport == UNCHANGED <<impVars, srchVars, hdrVars>>

\* if not settings.OPENAI_API_KEY: return _fallback_report(team, players)
NoCredential ==
    /\ rpc = "call" /\ ~credential
    /\ result' = fallback_report(team_name, roster)
    /\ rpc' = "returned"
    /\ UNCHANGED <<team_name, roster, credential, service, calls>>
    /\ OtherThanReport

\* the try block up to the request: the roster lines of the prompt; a None
\* statistic raises in the format and the except clause returns the fallback
BuildPrompt ==
    /\ rpc = "call" /\ credential
    /\ \/ /\ prompt_formats(roster)
          /\ rpc' = "request"
          /\ UNCHANGED result
       \/ /\ ~prompt_formats(roster)
          /\ result' = fallback_report(team_name, roster)
          /\ rpc' = "returned"
    /\ UNCHANGED <<team_name, roster, credential, service, calls>>
    /\ OtherThanReport

\* client.responses.create(...) and the return of its text, or the except
\* clause when the call (or reading its result) raises
Respond ==
    /\ rpc = "request"
    /\ calls' = calls + 1
    /\ \/ /\ service.kind = "text"
          /\ result' = text_or_fallback(service.text, team_name, roster)
       \/ /\ service.kind = "raise"
          /\ result' = fallback_report(team_name, roster)
    /\ rpc' = "returned"
    /\ UNCHANGED <<team_name, roster, credential, service>>
    /\ OtherThanReport

NextReport == NoCredential \/ BuildPrompt \/ Respond

SpecReport == InitReport /\ [][NextReport]_vars

\* ---- properties of the report

Returned == rpc = "returned"

IsString(o) == o.kind \in {"empty", "report", "text"}

\* C3: generate_team_report never raises: whatever the roster (empty, or with
\* players whose statistics are NULL) and whatever the credential and the
\* service do, the call ends by returning a string.
C3_NeverRaises == Returned => IsString(result)

\* the external path yields a non-blank text: a credential, a prompt that could
\* be built, and a response whose text is not blank
TextYielded ==
    /\ credential
    /\ prompt_formats(roster)
    /\ service.kind = "text"
    /\ \E i \in DOMAIN service.text : ~IsSpace(service.text[i])

\* C4: when the external path yields no non-blank text (no credential, the
\* call raises, or the text is blank after trimming) the call ends exactly as
\* the fallback report ends for the same team and players, and the service
\* has been asked at most once (no retry).
C4_FallsBackWithoutRetry ==
    /\ calls <= 1
    /\ (Returned /\ ~TextYielded) => result = fallback_report(team_name, roster)
    /\ (Returned /\ ~credential) => calls = 0

C4_Witness ==
    /\ Returned /\ credential /\ calls = 1
    /\ service.kind = "text" /\ service.text # <<>> /\ strip(service.text) = <<>>
    /\ result.kind = "report"

\* ---- the reference definition of the fallback report

StatFields == <<"points_per_game", "rebounds_per_game", "assists_per_game">>

Above0(v) == ~IsNone(v) /\ v.n > 0

InActiveSubset(p) == Above0(p.minutes_per_game) \/ Above0(p.points_per_game)

\* the places of the active players: the whole roster when nobody qualifies
ActivePlaces ==
    LET S == {i \in DOMAIN roster : InActiveSubset(roster[i])}
    IN  IF S = {} THEN DOMAIN roster ELSE S

\* place i holds the leader for a statistic: active, no active player has
\* more, and no earlier active player has as much
IsLeader(i, fld) ==
    /\ i \in ActivePlaces
    /\ ~IsNone(roster[i][fld])
    /\ \A j \in ActivePlaces :
          ~IsNone(roster[j][fld]) =>
              /\ roster[j][fld].n <= roster[i][fld].n
              /\ (j < i => roster[j][fld].n < roster[i][fld].n)

RECURSIVE SumAt(_, _)
SumAt(S, fld) ==
    IF S = {} THEN 0
    ELSE LET i == CHOOSE x \in S : TRUE IN roster[i][fld].n + SumAt(S \ {i}, fld)

\* tenths is the mean of the statistic over the active players that have it
\* (0.0 if none has), to one decimal
IsMeanTenths(tenths, fld) ==
    LET S == {i \in ActivePlaces : ~IsNone(roster[i][fld])}
        den == IF S = {} THEN 1 ELSE Cardinality(S)
        diff == 10 * SumAt(S, fld) - tenths * Scale * den
        dist == IF diff < 0 THEN -diff ELSE diff
    IN  /\ 2 * dist <= Scale * den
        /\ (2 * dist = Scale * den => tenths % 2 = 0)

MatchesReference(o) ==
    IF roster = <<>> THEN o = Outcome("empty", team_name, <<>>, <<>>, <<>>)
    ELSE /\ o.kind = "report"
         /\ o.team = team_name
         /\ \A k \in 1..3 :
               /\ \E i \in DOMAIN roster :
                     /\ IsLeader(i, StatFields[k])
                     /\ o.names[k] = roster[i].name
                     /\ o.shown[k] * Scale = 10 * roster[i][StatFields[k]].n
               /\ IsMeanTenths(o.shown[3 + k], StatFields[k])

\* C9: the fallback report equals its reference definition for every team and
\* roster: the no-statistics sentence for an empty roster; otherwise leaders
\* taken from the active subset (first on a tie), and means over the active
\* subset to one decimal.
C9_FallbackIsReference == (Returned /\ ~credential) => MatchesReference(result)

\* the reference holds on every roster whose players have all their statistics
CompleteRoster ==
    \A i \in DOMAIN roster :
        /\ ~IsNone(roster[i].minutes_per_game) /\ ~IsNone(roster[i].points_per_game)
        /\ ~IsNone(roster[i].rebounds_per_game) /\ ~IsNone(roster[i].assists_per_game)

FallbackOnCompleteRosters ==
    (Returned /\ ~credential /\ CompleteRoster) => MatchesReference(result)

\* the example of the specification: A(20,5,3), B(10,12,2), C(8,4,9)
FallbackExample ==
    fallback_report(Lakers, <<PlayerA, PlayerB, PlayerC>>) =
        Outcome("report", Lakers, <<<<"A">>, <<"B">>, <<"C">>>>, <<200, 120, 90, 127, 70, 47>>, <<>>)

\* ------------------------------------------------------- views.player_search

\* the most thresholds one modelled request supplies
MaxParams == 2

All == <<"a","l","l">>

\* the eight threshold parameters, in the order the view applies them, and
\* the column each one bounds
ParamNames ==
    <<"min_points", "min_rebounds", "min_assists", "min_minutes", "min_rating",
      "max_fouls", "min_two_pt", "min_three_pt">>

ParamColumn ==
    [min_points |-> "points_per_game", min_rebounds |-> "rebounds_per_game",
     min_assists |-> "assists_per_game", min_minutes |-> "minutes_per_game",
     min_rating |-> "rating", max_fouls |-> "fouls_per_game",
     min_two_pt |-> "two_points_pct", min_three_pt |-> "three_points_pct"]

QueryKeys == {"team_id", "position"} \cup {ParamNames[i] : i \in DOMAIN ParamNames}

\* request.GET.get(name): the value of a parameter, or its absence
Absent == [present |-> FALSE, val |-> <<>>]

Given(s) == [present |-> TRUE, val |-> s]

\* request.GET.get(name, default)
get(q, name, default) == IF q[name].present THEN q[name].val ELSE default

\* float(val) if val not in (None, "") else None; None on ValueError.
\* float() itself drops the white space around the number.
get_float(q, name) ==
    IF ~q[name].present \/ q[name].val = <<>> THEN None
    ELSE LET f == ParseFloat(strip(q[name].val))
         IN  IF f = Err THEN None ELSE f

\* QuerySet.filter(col__gte=v), filter(col__lte=v): a NULL column never matches
filter_gte(rows, col, v) ==
    KeepIdx(rows, {i \in DOMAIN rows : ~IsNone(rows[i][col]) /\ ~IsFloatNaN(v)
                                        /\ ~FloatLt(rows[i][col], v)}, 1)

filter_lte(rows, col, v) ==
    KeepIdx(rows, {i \in DOMAIN rows : ~IsNone(rows[i][col]) /\ ~IsFloatNaN(v)
                                        /\ ~FloatGt(rows[i][col], v)}, 1)

\* filter(team_id=team_id): the text of the request is converted to the key
filter_team(rows, team_id) ==
    KeepIdx(rows, {i \in DOMAIN rows : rows[i].team = IntOf(team_id)}, 1)

filter_position(rows, position) ==
    KeepIdx(rows, {i \in DOMAIN rows : rows[i].position = position}, 1)

\* the percentage of the request compared as it is
pct_threshold_raw(v) == v

\* params["min_two_pt"] / 100.0
pct_threshold(v) == Div100(v)

\* the value a threshold parameter is compared with
threshold(q, name) ==
    IF name \in {"min_two_pt", "min_three_pt"} THEN pct_threshold(get_float(q, name))
    ELSE get_float(q, name)

\* the chain of "if params[...] is not None: players = players.filter(...)"
RECURSIVE apply_params(_, _, _)
apply_params(rows, q, k) ==
    IF k > Len(ParamNames) THEN rows
    ELSE LET name == ParamNames[k]
             v == threshold(q, name)
             kept == IF get_float(q, name) = None THEN rows
                     ELSE IF name = "max_fouls" THEN filter_lte(rows, ParamColumn[name], v)
                     ELSE filter_gte(rows, ParamColumn[name], v)
         IN  apply_params(kept, q, k + 1)

\* the filters of the view, before the ordering
filtered(rows, q) ==
    LET team_id == get(q, "team_id", All)
        position == get(q, "position", All)
        by_team == IF team_id # All THEN filter_team(rows, team_id) ELSE rows
        by_pos == IF position # <<>> /\ position # All
                  THEN filter_position(by_team, position) ELSE by_team
    IN  apply_params(by_pos, q, 1)

\* ORDER BY rating DESC, points_per_game DESC: a is placed before b.  Where
\* the NULLs go is the database's choice: first (PostgreSQL) or last (SQLite,
\* MySQL) in a descending order.
placed_before(a, b, nulls_first) ==
    LET key(v) == IF IsNone(v) THEN (IF nulls_first THEN 1 ELSE -1) * 1000 * Scale ELSE v.n
    IN  \/ key(a.rating) > key(b.rating)
        \/ /\ key(a.rating) = key(b.rating)
           /\ key(a.points_per_game) > key(b.points_per_game)

\* the orders the database may return the rows in: rows equal on both keys
\* come in any order
order_by(rows) ==
    LET n == Len(rows)
        perms == {f \in [1..n -> 1..n] : \A i, j \in 1..n : i # j => f[i] # f[j]}
    IN  {[i \in 1..n |-> rows[f[i]]] : f \in
            {g \in perms : \E nulls_first \in BOOLEAN :
                \A i, j \in 1..n : i < j => ~placed_before(rows[g[j]], rows[g[i]], nulls_first)}}

\* ---- player_search as a state machine

Pct(h) == IF h = -1 THEN None ELSE Num(h * (Scale \div 100))

\* a Player row as the search reads it: statistics in halves, fractions in
\* hundredths, -1 for a NULL column
SearchRow(id, tm, pos, pts, reb, ast, mins, rat, fouls, two, three) ==
    [id |-> id, team |-> tm, position |-> pos,
     points_per_game |-> Stat(pts), rebounds_per_game |-> Stat(reb),
     assists_per_game |-> Stat(ast), minutes_per_game |-> Stat(mins),
     rating |-> Stat(rat), fouls_per_game |-> Stat(fouls),
     two_points_pct |-> Pct(two), three_points_pct |-> Pct(three)]

PlayerTable ==
    << SearchRow(1, 1, Guard, 32, 10, 7, 60, 30, 4, 55, 35),
       SearchRow(2, 1, Center, 5, 12, 1, 8, 4, 7, 60, 0),
       SearchRow(3, 2, Guard, 40, 8, 18, 40, 30, 2, 50, 40),
       SearchRow(4, 2, Forward, -1, -1, -1, -1, -1, -1, -1, -1) >>

Tables == {PlayerTable, SubSeq(PlayerTable, 1, 2), <<>>}

TeamSelectors == {Absent, Given(All), Given(<<"1">>), Given(<<"2">>), Given(<<"9">>)}

PositionSelectors == {Absent, Given(All), Given(<<>>), Given(Guard), Given(<<"W","i","n","g">>)}

\* what a threshold field of the form may carry
RawThresholds == {<<>>, <<"a","b","c">>, <<" ","3"," ">>, <<"5","0">>}

Queries ==
    {[k \in QueryKeys |->
        IF k = "team_id" THEN tsel
        ELSE IF k = "position" THEN psel
        ELSE IF k \in DOMAIN raw THEN Given(raw[k]) ELSE Absent] :
      tsel \in TeamSelectors, psel \in PositionSelectors,
      raw \in UNION {[S -> RawThresholds] :
                S \in {T \in SUBSET {ParamNames[i] : i \in DOMAIN ParamNames} :
                          Cardinality(T) <= MaxParams}}}

InitSearch ==
    /\ table \in Tables
    /\ GET \in Queries
    /\ spc = "request"
    /\ found = <<>>
    /\ ImportUnused /\ ReportUnused /\ HeaderUnused

\* the view from the request to the rendered player list
Search ==
    /\ spc = "request"
    /\ found' \in order_by(filtered(table, GET))
    /\ spc' = "rendered"
    /\ UNCHANGED <<table, GET, impVars, repVars, hdrVars>>

NextSearch == Search

SpecSearch == InitSearch /\ [][NextSearch]_vars

\* ---- properties of the search

Rendered == spc = "rendered"

\* the selector of a request: "all" when the request has none
Selector(name) == IF GET[name].present THEN GET[name].val ELSE All

\* the number a threshold field supplies: none when the field is missing,
\* empty, or not a number
Supplied(name) ==
    /\ GET[name].present
    /\ GET[name].val # <<>>
    /\ ParseFloat(strip(GET[name].val)).t = "num"

Minimum(name) == ParseFloat(strip(GET[name].val)).n

AtLeast(p, col, name) == Supplied(name) => (~IsNone(p[col]) /\ p[col].n >= Minimum(name))

\* a fraction is at least the 0-100 number divided by 100
FractionAtLeast(p, col, name) ==
    Supplied(name) => (~IsNone(p[col]) /\ 100 * p[col].n >= Minimum(name))

ThresholdsMet(p) ==
    /\ AtLeast(p, "points_per_game", "min_points")
    /\ AtLeast(p, "rebounds_per_game", "min_rebounds")
    /\ AtLeast(p, "assists_per_game", "min_assists")
    /\ AtLeast(p, "minutes_per_game", "min_minutes")
    /\ AtLeast(p, "rating", "min_rating")
    /\ Supplied("max_fouls") =>
          (~IsNone(p.fouls_per_game) /\ p.fouls_per_game.n <= Minimum("max_fouls"))
    /\ FractionAtLeast(p, "two_points_pct", "min_two_pt")
    /\ FractionAtLeast(p, "three_points_pct", "min_three_pt")

TeamMatches(p) == Selector("team_id") = All \/ IntDigits(p.team) = Selector("team_id")

RowsOf(seq) == {seq[i] : i \in DOMAIN seq}

\* each matching player once, and by rating descending, then by points per
\* game descending
ExactlyOnceAndOrdered(S) ==
    /\ RowsOf(found) = S
    /\ Len(found) = Cardinality(S)
    /\ \A i, j \in DOMAIN found :
          (i < j /\ ~IsNone(found[i].rating) /\ ~IsNone(found[j].rating)) =>
              /\ found[i].rating.n >= found[j].rating.n
              /\ (/\ found[i].rating.n = found[j].rating.n
                  /\ ~IsNone(found[i].points_per_game) /\ ~IsNone(found[j].points_per_game))
                    => found[i].points_per_game.n >= found[j].points_per_game.n

Sentence(o) ==
    CASE o.kind = "empty" ->
            <<"N","o"," ","p","l","a","y","e","r"," ","s","t","a","t","i","s","t","i","c","s"," ","a","v","a","i","l","a","b","l","e"," ","y","e","t"," ","f","o","r"," ">> \o o.team \o <<".">>
      [] o.kind = "nodata" ->
            <<"N","o"," ","p","l","a","y","e","r"," ","d","a","t","a"," ","i","s"," ","a","v","a","i","l","a","b","l","e"," ","y","e","t"," ","f","o","r"," ">> \o o.team \o <<".">>
      [] OTHER -> <<>>

\* order_by("-col").first(): the places the database may take the first row
\* from.  In a descending order the NULLs come first (PostgreSQL) or last
\* (SQLite, MySQL); among rows equal on the column any may come first.
first_desc(players, col, nulls_first) ==
    LET nulls == {i \in DOMAIN players : IsNone(players[i][col])}
        vals == DOMAIN players \ nulls
        top == {i \in vals : \A j \in vals : players[j][col].n <= players[i][col].n}
    IN  IF nulls # {} /\ (nulls_first \/ vals = {}) THEN nulls ELSE top

\* aggregate(total=Sum(col))["total"] or 0: NULLs are left out; the sum of
\* no value is None, which "or 0" turns into 0
sum_or_0(players, col) ==
    [num |-> avg([i \in DOMAIN players |-> players[i][col]]).num, den |-> 1]

\* aggregate(avg=Avg(col))["avg"] or 0
avg_or_0(players, col) == avg([i \in DOMAIN players |-> players[i][col]])

\* team_pts >= 80, team_reb >= 40
at_least(total, limit) == total.num >= limit * Scale * total.den

UpTempo == "an up-tempo, offense-first"

HalfCourt == "a more half-court oriented"

StrongBoards == "strong on the boards"

WeakBoards == "vulnerable on the boards"

\* the outcomes of build_scouting_report(team, players_qs); the report is
\* kept as the values its template interpolates: the three leaders, their
\* statistics and the three team figures in tenths, and the two phrases
build_scouting_report(tm, players) ==
    IF players = <<>> THEN {Outcome("nodata", tm, <<>>, <<>>, <<>>)}
    ELSE LET team_pts == sum_or_0(players, "points_per_game")
             team_reb == sum_or_0(players, "rebounds_per_game")
             avg_rating == avg_or_0(players, "rating")
             tempo_phrase == IF at_least(team_pts, 80) THEN UpTempo ELSE HalfCourt
             glass_phrase == IF at_least(team_reb, 40) THEN StrongBoards ELSE WeakBoards
         IN  UNION {
               { IF \/ IsNone(players[s].points_per_game)
                    \/ IsNone(players[r].rebounds_per_game)
                    \/ IsNone(players[a].assists_per_game)
                 THEN Raised
                 ELSE Outcome("scouting", tm,
                         <<players[s].name, players[r].name, players[a].name>>,
                         <<OneDecimal(players[s].points_per_game),
                           OneDecimal(players[r].rebounds_per_game),
                           OneDecimal(players[a].assists_per_game),
                           OneDecimalOf(team_pts), OneDecimalOf(team_reb),
                           OneDecimalOf(avg_rating)>>,
                         <<tempo_phrase, glass_phrase>>) :
                 s \in first_desc(players, "points_per_game", nulls_first),
                 r \in first_desc(players, "rebounds_per_game", nulls_first),
                 a \in first_desc(players, "assists_per_game", nulls_first) } :
               nulls_first \in BOOLEAN }

\* ---- build_scouting_report as a state machine

\* the rows of one team, as team_detail hands them over
ScoutCatalogue ==
    { PlayerRow(<<"S">>, 70, 60, 30, 10, 40),
      PlayerRow(<<"T">>, 60, 50, 25, 8, 30),
      PlayerRow(<<"U">>, 50, 50, 24, 18, 21),     \* ties T on points
      PlayerRow(<<"V">>, 50, 49, 25, 4, 24),
      PlayerRow(<<"W">>, 0, 0, 26, 0, 60),        \* did not play: not active
      PlayerRow(<<"X">>, -1, -1, -1, -1, -1),     \* created in the admin, no statistics
      PlayerRow(<<"Y">>, 20, -1, 25, 2, -1) }     \* some statistics missing

ScoutRosters ==
    {r \in UNION {[1..n -> ScoutCatalogue] : n \in 0..MaxRoster} :
        \A i, j \in DOMAIN r : i # j => r[i] # r[j]}

InitScout ==
    /\ team_name = Lakers
    /\ roster \in ScoutRosters
    /\ credential = FALSE
    /\ service = "off"
    /\ rpc = "scout"
    /\ calls = 0
    /\ result = Pending
    /\ ImportUnused /\ SearchUnused /\ HeaderUnused

\* scouting_report = build_scouting_report(team, players)
Scout ==
    /\ rpc = "scout"
    /\ result' \in build_scouting_report(team_name, roster)
    /\ rpc' = "scouted"
    /\ UNCHANGED <<team_name, roster, credential, service, calls>>
    /\ OtherThanReport

NextScout == Scout

SpecScout == InitScout /\ [][NextScout]_vars

\* ---- properties of the scouting report

Scouted == rpc = "scouted"

\* all the players of the team that have the statistic
Having(fld) == {i \in DOMAIN roster : ~IsNone(roster[i][fld])}

\* tenths is the sum of the statistic over all the players, to one decimal
IsSumTenths(tenths, fld) == tenths * Scale = 10 * SumAt(Having(fld), fld)

\* tenths is the mean of the statistic over all the players that have it
\* (0.0 if none has), to one decimal
IsMeanOfAllTenths(tenths, fld) ==
    LET S == Having(fld)
        den == IF S = {} THEN 1 ELSE Cardinality(S)
        diff == 10 * SumAt(S, fld) - tenths * Scale * den
        dist == IF diff < 0 THEN -diff ELSE diff
    IN  /\ 2 * dist <= Scale * den
        /\ (2 * dist = Scale * den => tenths % 2 = 0)

ScoutingFigures(o) ==
    /\ o.kind = "scouting"
    /\ IsSumTenths(o.shown[4], "points_per_game")
    /\ IsSumTenths(o.shown[5], "rebounds_per_game")
    /\ IsMeanOfAllTenths(o.shown[6], "rating")
    /\ o.text[1] = (IF SumAt(Having("points_per_game"), "points_per_game") >= 80 * Scale
                    THEN UpTempo ELSE HalfCourt)
    /\ o.text[2] = (IF SumAt(Having("rebounds_per_game"), "rebounds_per_game") >= 40 * Scale
                    THEN StrongBoards ELSE WeakBoards)

\* C11: for an empty roster build_scouting_report returns the sentence the
\* fallback report returns for an empty roster of the same team; for any
\* other roster it reports the sums of points and rebounds and the mean
\* rating over all the players, calls the team up-tempo exactly when the
\* points sum is at least 80 and strong on the boards exactly when the
\* rebounds sum is at least 40.
C11_ScoutingReport ==
    Scouted =>
        IF roster = <<>>
        THEN Sentence(result) = Sentence(fallback_report(team_name, <<>>))
        ELSE ScoutingFigures(result)

\* the second half of C11 on the rosters whose players have their minutes,
\* points, rebounds and assists
ScoutingOnCompleteRosters ==
    (Scouted /\ roster # <<>> /\ CompleteRoster) => ScoutingFigures(result)

\* the first half of C11 alone
ScoutingEmptySentence ==
    (Scouted /\ roster = <<>>) => Sentence(result) = Sentence(fallback_report(team_name, <<>>))

\* the second half of C11 alone
ScoutingNeverRaises == (Scouted /\ roster # <<>>) => result # Raised

====
